---- MODULE Spec2Model ----
(***************************************************************************)
(* A model of accel's host-side runtime: the device-call gateway           *)
(* (error.rs), the context guard, the memory handles (driver/memory.rs,    *)
(* memory.rs, memory/page_locked.rs, memory/registered.rs) and the         *)
(* arity-generic kernel launch (accel-derive launchable.rs).               *)
(*                                                                         *)
(* One host thread is modelled.  The driver is the environment: every      *)
(* entry point returns a status code chosen nondeterministically.          *)
(***************************************************************************)
EXTENDS Integers, Sequences, FiniteSets, TLC

VARIABLES
    ctxStack,   \* the thread's context stack kept by the driver; its top is current
    lastOp,     \* what the most recently completed host operation did
    handles,    \* the live memory handles
    launch,     \* the launch in progress (its position and per-stage outcomes)
    device,     \* the device's default stream
    future,     \* the asynchronous copy last issued and the future it returned
    contexts    \* per context: the references its creator holds, and whether
                \* the native context still exists

vars == <<ctxStack, lastOp, handles, launch, device, future, contexts>>

-----------------------------------------------------------------------------
(* Bounds of the model *)

MaxDepth == 2       \* guards a caller holds at the same time
MaxHandles == 2     \* memory handles alive at the same time
MaxLen == 2         \* elements of one handle
MaxArgs == 2        \* highest launch arity generated
MaxInflight == 2    \* kernels queued on the default stream at the same time

Contexts == {"ctxA", "ctxB"}
NoCtx == "none"
Values == {0, 1}

-----------------------------------------------------------------------------
(* Status codes of the driver (cudaError_enum) *)

CUDA_SUCCESS == 0
CUDA_ERROR_INVALID_VALUE == 1
CUDA_ERROR_NOT_READY == 600
CUDA_ERROR_ASSERT == 710
CUDA_ERROR_LAUNCH_FAILED == 719

DriverCodes ==
    {CUDA_SUCCESS, CUDA_ERROR_INVALID_VALUE, CUDA_ERROR_NOT_READY,
     CUDA_ERROR_ASSERT, CUDA_ERROR_LAUNCH_FAILED}

\* what a bind (push) of a context can answer
BindCodes == {CUDA_SUCCESS, CUDA_ERROR_INVALID_VALUE}

-----------------------------------------------------------------------------
(* Device Call Gateway: error.rs *)

OkResult == [kind |-> "Ok"]

check_drops_code(error, api_name) ==
    CASE error = CUDA_SUCCESS -> OkResult
      [] error = CUDA_ERROR_ASSERT -> [kind |-> "DeviceAssertionFailed"]
      [] error = CUDA_ERROR_NOT_READY -> [kind |-> "AsyncOperationNotReady"]
      [] OTHER -> [kind |-> "CUDAError", api_name |-> api_name,
                   error |-> CUDA_ERROR_INVALID_VALUE]

\* pub(crate) fn check(error: DeviceError, api_name: &str) -> Result<()>
check(error, api_name) ==
    CASE error = CUDA_SUCCESS -> OkResult
      [] error = CUDA_ERROR_ASSERT -> [kind |-> "DeviceAssertionFailed"]
      [] error = CUDA_ERROR_NOT_READY -> [kind |-> "AsyncOperationNotReady"]
      [] OTHER -> [kind |-> "CUDAError", api_name |-> api_name, error |-> error]

\* ffi_call!: the entry point is called, its status translated
ffi_call(ffi, status) == check(status, ffi)

\* The out-slot of a new-value call: MaybeUninit::uninit(), written by the
\* driver only when the call succeeds.
Uninit == [uninit |-> TRUE]
NoValue == [novalue |-> TRUE]
Written(out) == [v |-> out]
OutSlot(status, out) == IF status = CUDA_SUCCESS THEN Written(out) ELSE Uninit

\* ffi_new!: check(...).map(|_| value.assume_init())
ffi_new(ffi, status, out) ==
    LET r == check(status, ffi)
    IN  [result |-> r,
         value |-> IF r.kind = "Ok" THEN OutSlot(status, out) ELSE NoValue]

-----------------------------------------------------------------------------
(* Context Guard: Contexted::guard and the guard's release *)

Current(stack) == IF stack = <<>> THEN NoCtx ELSE stack[Len(stack)]

\* Contexted::guard(ctx): binds ctx on top of the thread's stack, or fails
\* and leaves the stack alone.
guard(stack, ctx, pushStatus) ==
    [result |-> check(pushStatus, "cuCtxPushCurrent_v2"),
     stack |-> IF pushStatus = CUDA_SUCCESS THEN Append(stack, ctx) ELSE stack]

\* the guard's release: the previous context is current again
release(stack) == SubSeq(stack, 1, Len(stack) - 1)

GuardEv(ctx, res) == [ev |-> "guard", ctx |-> ctx, result |-> res]
CallEv(api, arg, cur) == [ev |-> "call", api |-> api, arg |-> arg, cur |-> cur]
ReleaseEv(cur) == [ev |-> "release", cur |-> cur]

\* The guard is dropped before the entry point is called.
contexted_call_early_release(stack, ctx, pushStatus, ffi, status, arg) ==
    LET g == guard(stack, ctx, pushStatus)
    IN  IF g.result.kind # "Ok"
        THEN [result |-> g.result, stack |-> g.stack,
              events |-> <<GuardEv(ctx, g.result)>>]
        ELSE [result |-> ffi_call(ffi, status), stack |-> release(g.stack),
              events |-> <<GuardEv(ctx, g.result),
                           ReleaseEv(Current(release(g.stack))),
                           CallEv(ffi, arg, Current(release(g.stack)))>>]

\* The guard is never dropped.
contexted_call_leak(stack, ctx, pushStatus, ffi, status, arg) ==
    LET g == guard(stack, ctx, pushStatus)
    IN  IF g.result.kind # "Ok"
        THEN [result |-> g.result, stack |-> g.stack,
              events |-> <<GuardEv(ctx, g.result)>>]
        ELSE [result |-> ffi_call(ffi, status), stack |-> g.stack,
              events |-> <<GuardEv(ctx, g.result),
                           CallEv(ffi, arg, Current(g.stack))>>]

\* contexted_call!: Contexted::guard($ctx).and_then(|_g| ffi_call!(...)).
\* The closure owns _g, so the guard is dropped when the closure returns.
contexted_call(stack, ctx, pushStatus, ffi, status, arg) ==
    LET g == guard(stack, ctx, pushStatus)
    IN  IF g.result.kind # "Ok"
        THEN [result |-> g.result, stack |-> g.stack,
              events |-> <<GuardEv(ctx, g.result)>>]
        ELSE [result |-> ffi_call(ffi, status), stack |-> release(g.stack),
              events |-> <<GuardEv(ctx, g.result),
                           CallEv(ffi, arg, Current(g.stack)),
                           ReleaseEv(Current(release(g.stack)))>>]

\* contexted_new!: Contexted::guard($ctx).and_then(|_g| ffi_new!(...))
contexted_new(stack, ctx, pushStatus, ffi, status, arg, out) ==
    LET g == guard(stack, ctx, pushStatus)
    IN  IF g.result.kind # "Ok"
        THEN [result |-> g.result, value |-> NoValue, stack |-> g.stack,
              events |-> <<GuardEv(ctx, g.result)>>]
        ELSE LET r == ffi_new(ffi, status, out)
             IN  [result |-> r.result, value |-> r.value,
                  stack |-> release(g.stack),
                  events |-> <<GuardEv(ctx, g.result),
                               CallEv(ffi, arg, Current(g.stack)),
                               ReleaseEv(Current(release(g.stack)))>>]

-----------------------------------------------------------------------------
(* Initial state *)

NoOp == [op |-> "none"]
IdleLaunch == [pc |-> "idle"]
IdleDevice == [inflight |-> 0, status |-> CUDA_SUCCESS, unsynced |-> FALSE]
NoFuture == [held |-> FALSE, resolved |-> FALSE, op |-> "none"]

Init ==
    /\ ctxStack = <<>>
    /\ lastOp = NoOp
    /\ handles = {}
    /\ launch = IdleLaunch
    /\ device = IdleDevice
    /\ future = NoFuture
    /\ contexts = [c \in Contexts |-> [refs |-> 1, alive |-> TRUE]]

-----------------------------------------------------------------------------
HostIdle == launch.pc \in {"idle", "done"}

-----------------------------------------------------------------------------
(* A caller's own guards: `let _g = ctx.guard()?;` around other calls *)

PushContext(c) ==
    /\ HostIdle
    /\ Len(ctxStack) < MaxDepth
    /\ \E pushStatus \in BindCodes :
         LET g == guard(ctxStack, c, pushStatus)
         IN  /\ ctxStack' = g.stack
             /\ lastOp' = [op |-> "guard", ctx |-> c, stackBefore |-> ctxStack,
                           result |-> g.result]
    /\ UNCHANGED <<handles, launch, device, future, contexts>>

PopContext ==
    /\ HostIdle
    /\ ctxStack # <<>>
    /\ ctxStack' = release(ctxStack)
    /\ lastOp' = [op |-> "release", stackBefore |-> ctxStack]
    /\ UNCHANGED <<handles, launch, device, future, contexts>>

-----------------------------------------------------------------------------
(* The gateway's macros applied to an entry point of the catalog *)

Apis == {"cuMemFreeHost", "cuMemHostUnregister"}
NewApis == {"cuMemAllocHost_v2"}
OutValues == {1, 2}

FfiCall(api, status) ==
    /\ HostIdle
    /\ lastOp' = [op |-> "ffi_call", api |-> api, status |-> status,
                  stackBefore |-> ctxStack,
                  result |-> ffi_call(api, status)]
    /\ UNCHANGED <<ctxStack, handles, launch, device, future, contexts>>

FfiNew(api, status, out) ==
    /\ HostIdle
    /\ LET r == ffi_new(api, status, out)
       IN  lastOp' = [op |-> "ffi_new", api |-> api, status |-> status,
                      out |-> out, stackBefore |-> ctxStack,
                      result |-> r.result, value |-> r.value]
    /\ UNCHANGED <<ctxStack, handles, launch, device, future, contexts>>

ContextedCall(c, pushStatus, api, status) ==
    /\ HostIdle
    /\ LET r == contexted_call(ctxStack, c, pushStatus, api, status, 0)
       IN  /\ ctxStack' = r.stack
           /\ lastOp' = [op |-> "contexted_call", ctx |-> c, api |-> api,
                         pushStatus |-> pushStatus, status |-> status,
                         stackBefore |-> ctxStack, events |-> r.events,
                         result |-> r.result]
    /\ UNCHANGED <<handles, launch, device, future, contexts>>

ContextedNew(c, pushStatus, api, status, out) ==
    /\ HostIdle
    /\ LET r == contexted_new(ctxStack, c, pushStatus, api, status, 0, out)
       IN  /\ ctxStack' = r.stack
           /\ lastOp' = [op |-> "contexted_new", ctx |-> c, api |-> api,
                         pushStatus |-> pushStatus, status |-> status,
                         out |-> out,
                         stackBefore |-> ctxStack, events |-> r.events,
                         result |-> r.result, value |-> r.value]
    /\ UNCHANGED <<handles, launch, device, future, contexts>>

NextCall ==
    \/ \E c \in Contexts : PushContext(c)
    \/ PopContext
    \/ \E api \in Apis, status \in DriverCodes : FfiCall(api, status)
    \/ \E api \in NewApis, status \in DriverCodes, out \in OutValues :
         FfiNew(api, status, out)
    \/ \E c \in Contexts, pushStatus \in BindCodes, api \in Apis,
          status \in DriverCodes :
         ContextedCall(c, pushStatus, api, status)
    \/ \E c \in Contexts, pushStatus \in BindCodes, api \in NewApis,
          status \in DriverCodes, out \in OutValues :
         ContextedNew(c, pushStatus, api, status, out)

SpecCall == Init /\ [][NextCall]_vars

-----------------------------------------------------------------------------
(* Claims about the gateway and the guarded-call macros, under SpecCall *)

GuardedOps == {"contexted_call", "contexted_new"}

\* C2: contexted_call! and contexted_new! acquire the guard of ctx first and
\* only then invoke the entry point.  When the guard fails the entry point is
\* never invoked and the guard's error is the result; when it succeeds the
\* result is the entry point's translated status, the entry point runs with
\* ctx current (the guard is held), and the guard is released only after it.
C2_GuardThenCall ==
    lastOp.op \in GuardedOps =>
        LET ev == lastOp.events
        IN  /\ ev[1].ev = "guard"
            /\ ev[1].ctx = lastOp.ctx
            /\ ev[1].result.kind # "Ok" =>
                 /\ Len(ev) = 1
                 /\ lastOp.result = ev[1].result
            /\ ev[1].result.kind = "Ok" =>
                 /\ Len(ev) = 3
                 /\ ev[2].ev = "call"
                 /\ ev[2].api = lastOp.api
                 /\ ev[2].cur = lastOp.ctx
                 /\ ev[3].ev = "release"
                 /\ lastOp.result = check(lastOp.status, lastOp.api)

\* C2 witness: a guarded new-value call on a context other than the current
\* one, whose guard succeeded and whose entry point failed.
C2_Witness ==
    /\ lastOp.op = "contexted_new"
    /\ Current(lastOp.stackBefore) \notin {NoCtx, lastOp.ctx}
    /\ lastOp.events[1].result.kind = "Ok"
    /\ lastOp.result.kind = "CUDAError"

\* C3: after a guarded device call has returned, whether the driver call
\* succeeded or failed, the thread-current context is the one that was
\* current before the guard was acquired; inside an outer guard on another
\* context, the inner guard's release makes the outer context current again.
C3_CurrentRestored ==
    lastOp.op \in GuardedOps =>
        /\ Current(ctxStack) = Current(lastOp.stackBefore)
        /\ ctxStack = lastOp.stackBefore
        /\ \A i \in 1..Len(lastOp.events) :
             lastOp.events[i].ev = "release" =>
                 lastOp.events[i].cur = Current(lastOp.stackBefore)

\* C3 witness: a guarded call on ctxB returned with a driver failure while an
\* outer guard on ctxA is held, and ctxA is current again.
C3_Witness ==
    /\ lastOp.op = "contexted_call"
    /\ lastOp.ctx = "ctxB"
    /\ lastOp.stackBefore = <<"ctxA">>
    /\ lastOp.events[1].result.kind = "Ok"
    /\ lastOp.result.kind # "Ok"
    /\ Current(ctxStack) = "ctxA"

\* C4: the status translation is total and exact: success is Ok, the
\* device-assertion code is DeviceAssertionFailed, the not-ready code is
\* AsyncOperationNotReady, and any other code is the generic driver error
\* with the entry point's name and the raw code; a new-value call returns
\* the out-value only on success and never reads the out-slot on failure.
C4_TranslationExact ==
    lastOp.op \in {"ffi_call", "ffi_new"} =>
        /\ lastOp.status = CUDA_SUCCESS => lastOp.result = [kind |-> "Ok"]
        /\ lastOp.status = CUDA_ERROR_ASSERT =>
             lastOp.result = [kind |-> "DeviceAssertionFailed"]
        /\ lastOp.status = CUDA_ERROR_NOT_READY =>
             lastOp.result = [kind |-> "AsyncOperationNotReady"]
        /\ lastOp.status \notin
               {CUDA_SUCCESS, CUDA_ERROR_ASSERT, CUDA_ERROR_NOT_READY} =>
             lastOp.result = [kind |-> "CUDAError", api_name |-> lastOp.api,
                              error |-> lastOp.status]
        /\ lastOp.op = "ffi_new" =>
             /\ lastOp.value # Uninit
             /\ lastOp.status = CUDA_SUCCESS => lastOp.value = [v |-> lastOp.out]
             /\ lastOp.status # CUDA_SUCCESS => lastOp.value = NoValue

\* C4 witness: a new-value call answered with a code that has no variant of
\* its own.
C4_Witness ==
    /\ lastOp.op = "ffi_new"
    /\ lastOp.status = CUDA_ERROR_LAUNCH_FAILED
    /\ lastOp.result.kind = "CUDAError"
    /\ lastOp.value = NoValue

-----------------------------------------------------------------------------
(* Kernel launch: Launchable{N}::launch of accel-derive/src/launchable.rs  *)
(* The launch is modelled stage by stage; `launch.stages` lists the stages *)
(* gone through, in order.                                                  *)

NotRun == [kind |-> "NotRun"]
KernelError ==
    [kind |-> "CUDAError", api_name |-> "cuModuleGetFunction",
     error |-> CUDA_ERROR_INVALID_VALUE]
KernelResults == {OkResult, KernelError}

\* what the device reports for a finished kernel
DeviceOutcomes == {CUDA_SUCCESS, CUDA_ERROR_ASSERT, CUDA_ERROR_LAUNCH_FAILED}

\* launch(grid, block, args): grid.into(), block.into()
Launch(c, n) ==
    /\ HostIdle
    /\ device.inflight < MaxInflight
    /\ launch' = [pc |-> "built", ctx |-> c, n |-> n, marshaled |-> <<>>,
                  stages |-> <<"Built">>, kernel |-> NotRun, call |-> NotRun,
                  callEvents |-> <<>>, sync |-> NotRun,
                  syncStatus |-> CUDA_SUCCESS, result |-> NotRun,
                  busyAtDispatch |-> FALSE, unsyncedAtDispatch |-> FALSE,
                  prev |-> IF launch.pc = "done" THEN launch.result ELSE NotRun]
    /\ UNCHANGED <<ctxStack, lastOp, handles, device, future, contexts>>

\* let kernel = self.get_kernel()?;
AfterGetKernel(l, r) ==
    IF r.kind = "Ok"
    THEN [l EXCEPT !.pc = "marshal", !.kernel = r,
                   !.stages = Append(@, "KernelReady")]
    ELSE [l EXCEPT !.pc = "done", !.kernel = r, !.result = r,
                   !.stages = Append(@, "Failed")]

GetKernel(r) ==
    /\ launch.pc = "built"
    /\ launch' = AfterGetKernel(launch, r)
    /\ UNCHANGED <<ctxStack, lastOp, handles, device, future, contexts>>

\* let mut args = [arg1.as_kernel_parameter(), ..., argN.as_kernel_parameter()];
\* the array's elements are evaluated in declaration order
Marshal ==
    /\ launch.pc = "marshal"
    /\ Len(launch.marshaled) < launch.n
    /\ launch' = [launch EXCEPT
                    !.marshaled = Append(@, Len(@) + 1),
                    !.stages = Append(@, "ArgMarshaled")]
    /\ UNCHANGED <<ctxStack, lastOp, handles, device, future, contexts>>

\* The launch call is issued with whatever has been marshaled so far.
ReadyToDispatch_any(l) == l.pc = "marshal"

\* the args array is complete before contexted_call! is entered
ReadyToDispatch(l) == l.pc = "marshal" /\ Len(l.marshaled) = l.n

StageOf(e) ==
    CASE e.ev = "guard" ->
            IF e.result.kind = "Ok" THEN "ContextAcquired" ELSE "Failed"
      [] e.ev = "call" -> "Dispatched"
      [] e.ev = "release" -> "ContextReleased"

RECURSIVE StagesOf(_)
StagesOf(events) ==
    IF events = <<>> THEN <<>>
    ELSE <<StageOf(Head(events))>> \o StagesOf(Tail(events))

\* The launch call's error is dropped and the launch goes on to sync.
AfterLaunchCall_ignores_error(l, r) ==
    [l EXCEPT !.pc = "sync", !.call = r.result, !.callEvents = r.events,
              !.stages = @ \o StagesOf(r.events)]

\* The launch returns as soon as the kernel is dispatched.
AfterLaunchCall_no_sync(l, r) ==
    [l EXCEPT !.pc = "done", !.call = r.result, !.callEvents = r.events,
              !.result = r.result,
              !.stages = @ \o StagesOf(r.events)]

\* contexted_call!(&kernel, cuLaunchKernel, ...)?;
AfterLaunchCall(l, r) ==
    IF r.result.kind = "Ok"
    THEN [l EXCEPT !.pc = "sync", !.call = r.result, !.callEvents = r.events,
                   !.stages = @ \o StagesOf(r.events)]
    ELSE [l EXCEPT !.pc = "done", !.call = r.result, !.callEvents = r.events,
                   !.result = r.result,
                   !.stages = (@ \o StagesOf(r.events)) \o
                              (IF Len(r.events) > 1 THEN <<"Failed">> ELSE <<>>)]

LaunchCall(pushStatus, status) ==
    /\ ReadyToDispatch(launch)
    /\ LET r == contexted_call(ctxStack, launch.ctx, pushStatus,
                               "cuLaunchKernel", status, launch.marshaled)
           issued == \E i \in 1..Len(r.events) : r.events[i].ev = "call"
           started == issued /\ status = CUDA_SUCCESS
       IN  /\ ctxStack' = r.stack
           /\ launch' = [AfterLaunchCall(launch, r) EXCEPT
                           !.busyAtDispatch = issued /\ device.inflight > 0,
                           !.unsyncedAtDispatch = issued /\ device.unsynced]
           /\ device' = IF started
                        THEN [device EXCEPT !.inflight = @ + 1]
                        ELSE device
    /\ UNCHANGED <<lastOp, handles, future, contexts>>

\* kernel.sync()?; Ok(())
AfterSync(l, r, status) ==
    [l EXCEPT !.pc = "done", !.sync = r.result, !.syncStatus = status,
              !.result = r.result,
              !.stages = Append(@, IF r.result.kind = "Ok"
                                   THEN "Synchronized" ELSE "Failed")]

\* Contexted::sync of the kernel's context: a guarded cuCtxSynchronize, which
\* returns once the context's queued work has finished and reports how it
\* ended.
LaunchSync(pushStatus) ==
    /\ launch.pc = "sync"
    /\ pushStatus = CUDA_SUCCESS => device.inflight = 0
    /\ LET r == contexted_call(ctxStack, launch.ctx, pushStatus,
                               "cuCtxSynchronize", device.status, 0)
           issued == \E i \in 1..Len(r.events) : r.events[i].ev = "call"
       IN  /\ ctxStack' = r.stack
           /\ launch' = AfterSync(launch, r,
                                  IF issued THEN device.status ELSE CUDA_SUCCESS)
           /\ device' = IF issued
                        THEN IdleDevice
                        ELSE [device EXCEPT !.unsynced = TRUE]
    /\ UNCHANGED <<lastOp, handles, future, contexts>>

\* the device finishes the kernel at the head of the default stream
KernelFinish(outcome) ==
    /\ device.inflight > 0
    /\ device' = [device EXCEPT
                    !.inflight = @ - 1,
                    !.status = IF @ = CUDA_SUCCESS THEN outcome ELSE @]
    /\ UNCHANGED <<ctxStack, lastOp, handles, launch, future, contexts>>

NextLaunch ==
    \/ \E c \in Contexts : PushContext(c)
    \/ PopContext
    \/ \E c \in Contexts, n \in 0..MaxArgs : Launch(c, n)
    \/ \E r \in KernelResults : GetKernel(r)
    \/ Marshal
    \/ \E pushStatus \in BindCodes, status \in DriverCodes :
         LaunchCall(pushStatus, status)
    \/ \E pushStatus \in BindCodes : LaunchSync(pushStatus)
    \/ \E outcome \in DeviceOutcomes : KernelFinish(outcome)

SpecLaunch == Init /\ [][NextLaunch]_vars

-----------------------------------------------------------------------------
(* Claims about launch, under SpecLaunch *)

CountBefore(st, i, name) == Cardinality({k \in 1..(i - 1) : st[k] = name})
SomeBefore(st, i, name) == \E k \in 1..(i - 1) : st[k] = name

\* C5 as stated: the stages of every launch come in the order Built,
\* ContextAcquired, ArgsMarshaled, Dispatched, Synchronized-or-Failed: no
\* argument is marshaled before the context guard is acquired, every
\* argument is marshaled before the launch call is issued, and the
\* synchronize step comes only after the launch call.
C5_GuardBeforeMarshal ==
    launch.pc # "idle" =>
        LET st == launch.stages
        IN  /\ st[1] = "Built"
            /\ \A i \in 1..Len(st) :
                 /\ st[i] = "ArgMarshaled" => SomeBefore(st, i, "ContextAcquired")
                 /\ st[i] = "Dispatched" =>
                      CountBefore(st, i, "ArgMarshaled") = launch.n
            /\ launch.sync # NotRun => SomeBefore(st, Len(st), "Dispatched")

\* C5 as amended: the stages of every launch come in the order Built,
\* ArgsMarshaled, ContextAcquired, Dispatched, Synchronized-or-Failed: every
\* argument is marshaled after get_kernel and before the context guard is
\* acquired, the launch call is issued only with the guard held and all
\* arguments marshaled, and the synchronize step comes only after the launch
\* call.
C5_MarshalBeforeGuard ==
    launch.pc # "idle" =>
        LET st == launch.stages
        IN  /\ st[1] = "Built"
            /\ \A i \in 1..Len(st) :
                 /\ st[i] = "ArgMarshaled" =>
                      /\ SomeBefore(st, i, "KernelReady")
                      /\ ~SomeBefore(st, i, "ContextAcquired")
                 /\ st[i] = "ContextAcquired" =>
                      CountBefore(st, i, "ArgMarshaled") = launch.n
                 /\ st[i] = "Dispatched" =>
                      /\ i > 1
                      /\ st[i - 1] = "ContextAcquired"
                      /\ CountBefore(st, i, "ArgMarshaled") = launch.n
            /\ \A i \in 1..Len(launch.callEvents) :
                 launch.callEvents[i].ev = "call" =>
                     /\ launch.callEvents[i].cur = launch.ctx
                     /\ launch.callEvents[i].arg = [k \in 1..launch.n |-> k]
            /\ launch.sync # NotRun => SomeBefore(st, Len(st), "Dispatched")

\* C5 witness: a two-argument launch that went through every stage.
C5_Witness ==
    /\ launch.pc = "done"
    /\ launch.n = 2
    /\ launch.stages = <<"Built", "KernelReady", "ArgMarshaled", "ArgMarshaled",
                         "ContextAcquired", "Dispatched", "ContextReleased",
                         "Synchronized">>

\* C6: a failure at any stage of launch short-circuits.  When get_kernel
\* fails neither the launch call nor sync is issued; when the context guard
\* or the launch call fails sync is not called; launch returns the error of
\* the first failing stage, a device-side assertion trap being reported as
\* DeviceAssertionFailed, and returns Ok only when every stage succeeded.
C6_ShortCircuit ==
    /\ launch.pc # "idle" =>
         /\ launch.call # NotRun => launch.kernel.kind = "Ok"
         /\ launch.sync # NotRun =>
              launch.kernel.kind = "Ok" /\ launch.call.kind = "Ok"
    /\ launch.pc = "done" =>
         /\ launch.kernel.kind # "Ok" =>
              /\ launch.call = NotRun
              /\ launch.callEvents = <<>>
              /\ launch.sync = NotRun
              /\ launch.result = launch.kernel
         /\ (launch.kernel.kind = "Ok" /\ launch.call.kind # "Ok") =>
              /\ launch.sync = NotRun
              /\ launch.result = launch.call
         /\ (launch.kernel.kind = "Ok" /\ launch.call.kind = "Ok") =>
              /\ launch.sync # NotRun
              /\ launch.result = launch.sync
         /\ launch.result.kind = "Ok" <=>
              /\ launch.kernel.kind = "Ok"
              /\ launch.call.kind = "Ok"
              /\ launch.sync.kind = "Ok"
         /\ launch.syncStatus = CUDA_ERROR_ASSERT =>
              launch.result = [kind |-> "DeviceAssertionFailed"]

\* C6 witness: a launch whose kernel trapped on a device-side assertion.
C6_Witness ==
    /\ launch.pc = "done"
    /\ launch.call.kind = "Ok"
    /\ launch.syncStatus = CUDA_ERROR_ASSERT
    /\ launch.result.kind = "DeviceAssertionFailed"

-----------------------------------------------------------------------------
(* Un-contexted device memory: driver/memory.rs and memory.rs               *)
(* These handles keep no context; `context` of such a handle is the         *)
(* driver's own record of the context the allocation was made in.           *)

ElemSize == 4       \* size_of::<i32>()

NoHandle == [kind |-> "NoHandle"]
Msg(m) == [kind |-> "Msg", msg |-> m]
Panic(m) == [kind |-> "Panic", msg |-> m]

Ptrs == 1..MaxHandles
FreshPtr ==
    LET free == Ptrs \ {h.ptr.n : h \in handles}
    IN  CHOOSE p \in free : \A q \in free : p <= q
DevPtr(n) == [space |-> "device", n |-> n]
PinnedPtr(n) == [space |-> "pinned", n |-> n]
HeapPtr(n) == [space |-> "heap", n |-> n]

\* the driver refuses an allocation of zero bytes
AllocCodes(bytes) ==
    IF bytes = 0 THEN DriverCodes \ {CUDA_SUCCESS} ELSE DriverCodes

\* Context::is_current(): asks the driver which context is current
is_current(stack, ctx, queryStatus) ==
    [result |-> check(queryStatus, "cuCtxGetCurrent"),
     value |-> Current(stack) = ctx]

\* MemoryInfo::get(ctx)
MemoryInfo_get(stack, ctx, queryStatus, status) ==
    LET cur == is_current(stack, ctx, queryStatus)
    IN  IF cur.result.kind # "Ok"
        THEN [result |-> cur.result, events |-> <<>>]
        ELSE IF ~cur.value
        THEN [result |-> Msg("Given context must be current"), events |-> <<>>]
        ELSE [result |-> ffi_call("cuMemGetInfo_v2", status),
              events |-> <<CallEv("cuMemGetInfo_v2", 0, Current(stack))>>]

\* DeviceMemory::non_managed(ctx, size) and DeviceMemory::managed(ctx, size, flag)
DeviceMemory_new(stack, ctx, size, managed, queryStatus, status, ptr) ==
    LET cur == is_current(stack, ctx, queryStatus)
        api == IF managed THEN "cuMemAllocManaged" ELSE "cuMemAlloc_v2"
    IN  IF cur.result.kind # "Ok"
        THEN [result |-> cur.result, events |-> <<>>, handle |-> NoHandle]
        ELSE IF ~cur.value
        THEN [result |-> Msg("Given context must be current"),
              events |-> <<>>, handle |-> NoHandle]
        ELSE LET r == ffi_new(api, status, ptr)
             IN  [result |-> r.result,
                  events |-> <<CallEv(api, size, Current(stack))>>,
                  handle |-> IF r.result.kind = "Ok"
                             THEN [kind |-> "DeviceMemory", ptr |-> r.value.v,
                                   size |-> size, managed |-> managed,
                                   context |-> Current(stack)]
                             ELSE NoHandle]

\* DeviceMemory::get_attr(attr): buffer_id, is_managed, memory_type, is_mapped
get_attr(stack, h, attr, status) ==
    [result |-> ffi_call("cuPointerGetAttribute", status),
     events |-> <<CallEv("cuPointerGetAttribute", attr, Current(stack))>>]

\* Drop for DeviceMemory: cuMemFree_v2(self.ptr).expect(...)
DeviceMemory_drop(stack, h, status) ==
    LET r == ffi_call("cuMemFree_v2", status)
    IN  [result |-> IF r.kind = "Ok" THEN OkResult
                    ELSE Panic("Failed to free device memory"),
         events |-> <<CallEv("cuMemFree_v2", h.ptr, Current(stack))>>]

\* memory.rs, DeviceMemory::<T>::new(ctx, size): assure_current().expect(...),
\* then cuMemAllocManaged(size * size_of::<T>()).expect(...)
OldDeviceMemory_new(stack, ctx, size, queryStatus, status, ptr) ==
    LET cur == is_current(stack, ctx, queryStatus)
    IN  IF cur.result.kind # "Ok" \/ ~cur.value
        THEN [result |-> Panic("DeviceMemory::new requires valid and current context"),
              events |-> <<>>, handle |-> NoHandle]
        ELSE LET r == ffi_new("cuMemAllocManaged", status, ptr)
             IN  [result |-> IF r.result.kind = "Ok" THEN OkResult
                             ELSE Panic("Cannot allocate device memory"),
                  events |-> <<CallEv("cuMemAllocManaged", size * ElemSize,
                                      Current(stack))>>,
                  handle |-> IF r.result.kind = "Ok"
                             THEN [kind |-> "DeviceMemory", ptr |-> r.value.v,
                                   size |-> size, managed |-> TRUE,
                                   context |-> Current(stack)]
                             ELSE NoHandle]

Attrs == {"BUFFER_ID", "IS_MANAGED", "MEMORY_TYPE", "MAPPED"}

MemoryInfoGet(c, queryStatus, status) ==
    /\ HostIdle
    /\ LET r == MemoryInfo_get(ctxStack, c, queryStatus, status)
       IN  lastOp' = [op |-> "MemoryInfo::get", assoc |-> c,
                      stackBefore |-> ctxStack, events |-> r.events,
                      result |-> r.result]
    /\ UNCHANGED <<ctxStack, handles, launch, device, future, contexts>>

DeviceMemoryNew(c, size, managed, queryStatus, status) ==
    /\ HostIdle
    /\ Cardinality(handles) < MaxHandles
    /\ status \in AllocCodes(size)
    /\ LET r == DeviceMemory_new(ctxStack, c, size, managed, queryStatus,
                                 status, DevPtr(FreshPtr))
       IN  /\ lastOp' = [op |-> "DeviceMemory::new", assoc |-> c,
                         stackBefore |-> ctxStack, events |-> r.events,
                         result |-> r.result]
           /\ handles' = IF r.handle = NoHandle THEN handles
                         ELSE handles \cup {r.handle}
    /\ UNCHANGED <<ctxStack, launch, device, future, contexts>>

OldDeviceMemoryNew(c, size, queryStatus, status) ==
    /\ HostIdle
    /\ Cardinality(handles) < MaxHandles
    /\ status \in AllocCodes(size * ElemSize)
    /\ LET r == OldDeviceMemory_new(ctxStack, c, size, queryStatus, status,
                                    DevPtr(FreshPtr))
       IN  /\ lastOp' = [op |-> "memory::DeviceMemory::new", assoc |-> c,
                         stackBefore |-> ctxStack, events |-> r.events,
                         result |-> r.result]
           /\ handles' = IF r.handle = NoHandle THEN handles
                         ELSE handles \cup {r.handle}
    /\ UNCHANGED <<ctxStack, launch, device, future, contexts>>

GetAttr(h, attr, status) ==
    /\ HostIdle
    /\ h.kind = "DeviceMemory"
    /\ LET r == get_attr(ctxStack, h, attr, status)
       IN  lastOp' = [op |-> "get_attr", assoc |-> h.context,
                      stackBefore |-> ctxStack, events |-> r.events,
                      result |-> r.result, status |-> status]
    /\ UNCHANGED <<ctxStack, handles, launch, device, future, contexts>>

DropDeviceMemory(h, status) ==
    /\ HostIdle
    /\ h.kind = "DeviceMemory"
    /\ LET r == DeviceMemory_drop(ctxStack, h, status)
       IN  lastOp' = [op |-> "drop", assoc |-> h.context,
                      stackBefore |-> ctxStack, events |-> r.events,
                      result |-> r.result, status |-> status]
    /\ handles' = handles \ {h}
    /\ UNCHANGED <<ctxStack, launch, device, future, contexts>>

\* the buffer id the driver keeps for an allocation: unique among the
\* allocations that are alive
driver_buffer_id(h) == h.ptr.n

\* the values a u64 read of the out-slot can give
BufferIds == 1..MaxHandles

\* DeviceMemory::buffer_id: get_attr(CU_POINTER_ATTRIBUTE_BUFFER_ID).  The
\* out-slot is `let ty = MaybeUninit::uninit()`, not mutable, and the driver
\* writes it through ty.as_ptr() cast to *mut: writing through that pointer
\* is undefined, so ty.assume_init() may give the value the driver wrote or
\* any other value (`seen`).
buffer_id(stack, h, status, seen) ==
    LET r == get_attr(stack, h, "BUFFER_ID", status)
    IN  [result |-> r.result, events |-> r.events,
         value |-> IF r.result.kind = "Ok" THEN Written(seen) ELSE NoValue]

\* mem1.buffer_id()? and mem2.buffer_id()? of two live allocations
BufferIdPair(h1, h2, status1, status2, seen1, seen2) ==
    /\ HostIdle
    /\ h1.kind = "DeviceMemory" /\ h2.kind = "DeviceMemory"
    /\ h1 # h2
    /\ LET r1 == buffer_id(ctxStack, h1, status1, seen1)
           r2 == buffer_id(ctxStack, h2, status2, seen2)
       IN  lastOp' = [op |-> "buffer_id", first |-> h1, second |-> h2,
                      written |-> <<driver_buffer_id(h1),
                                    driver_buffer_id(h2)>>,
                      results |-> <<r1.result, r2.result>>,
                      values |-> <<r1.value, r2.value>>]
    /\ UNCHANGED <<ctxStack, handles, launch, device, future, contexts>>

\* what the driver answers to a pointer query or a free
QueryCodes == {CUDA_SUCCESS, CUDA_ERROR_INVALID_VALUE}

NextDriver ==
    \/ \E c \in Contexts : PushContext(c)
    \/ PopContext
    \/ \E c \in Contexts, q \in BindCodes, status \in QueryCodes :
         MemoryInfoGet(c, q, status)
    \/ \E c \in Contexts, size \in 0..MaxLen, managed \in BOOLEAN,
          q \in BindCodes, status \in QueryCodes :
         DeviceMemoryNew(c, size, managed, q, status)
    \/ \E c \in Contexts, size \in 0..MaxLen, q \in BindCodes,
          status \in QueryCodes :
         OldDeviceMemoryNew(c, size, q, status)
    \/ \E h \in handles, attr \in Attrs, status \in QueryCodes :
         GetAttr(h, attr, status)
    \/ \E h \in handles, status \in QueryCodes : DropDeviceMemory(h, status)
    \/ \E h1 \in handles, h2 \in handles, status1 \in QueryCodes,
          status2 \in QueryCodes, seen1 \in BufferIds, seen2 \in BufferIds :
         BufferIdPair(h1, h2, status1, status2, seen1, seen2)

SpecDriver == Init /\ [][NextDriver]_vars

DeviceMemoryOps ==
    {"MemoryInfo::get", "DeviceMemory::new", "memory::DeviceMemory::new",
     "get_attr", "drop"}

\* C1 as stated: a device-memory operation (non_managed, managed,
\* MemoryInfo::get, the pointer-attribute queries, the release on drop) whose
\* associated context is not the thread-current context at call time is
\* rejected with an error and invokes no driver entry point.
C1_RejectedUnlessCurrent ==
    (lastOp.op \in DeviceMemoryOps
        /\ lastOp.assoc # Current(lastOp.stackBefore)) =>
            /\ lastOp.result.kind # "Ok"
            /\ lastOp.events = <<>>

C13_DropLogsOthersPropagate ==
    /\ lastOp.op = "drop" => lastOp.result.kind = "Ok"
    /\ (lastOp.op = "get_attr" /\ lastOp.status # CUDA_SUCCESS) =>
         lastOp.result = check(lastOp.status, "cuPointerGetAttribute")

-----------------------------------------------------------------------------
(* Contexted host memory: memory/page_locked.rs, memory/registered.rs and   *)
(* the Allocatable constructors of memory/mod.rs                            *)

UninitElem == -1    \* an element that was never written

\* The buffer is rebuilt one element shorter.
set_shrinks(data, value) == [i \in 1..(Len(data) - 1) |-> value]

\* The last element is not stored.
set_skips_last(data, value) ==
    [i \in 1..Len(data) |-> IF i < Len(data) THEN value ELSE data[i]]

\* Memory::set: self.iter_mut().for_each(|v| *v = value)
set(data, value) == [i \in 1..Len(data) |-> value]

\* the bytes of one element, lowest first; an element that was never
\* written has bytes that were never written
ElemBytes(v) ==
    [b \in 1..ElemSize |->
        IF v = UninitElem THEN UninitElem ELSE IF b = 1 THEN v ELSE 0]

\* self.align_to_mut::<u8>(): the buffer seen as bytes; u8 has alignment 1,
\* so the middle part is the whole buffer
as_u8(data) ==
    [k \in 1..(Len(data) * ElemSize) |->
        ElemBytes(data[((k - 1) \div ElemSize) + 1])[((k - 1) % ElemSize) + 1]]

\* the elements that a sequence of bytes holds
from_u8(bytes) ==
    [i \in 1..(Len(bytes) \div ElemSize) |->
        IF \E b \in 1..ElemSize : bytes[(i - 1) * ElemSize + b] = UninitElem
        THEN UninitElem
        ELSE bytes[(i - 1) * ElemSize + 1]]

\* Only the first byte of the buffer is cleared.
set_zero_u8_first_byte(data) ==
    from_u8([k \in 1..Len(as_u8(data)) |->
                IF k = 1 THEN 0 ELSE as_u8(data)[k]])

\* Memory::set_zero_u8: every byte of the buffer is set to 0
set_zero_u8(data) == from_u8([k \in 1..Len(as_u8(data)) |-> 0])

\* The zero-size check is missing.
uninitialized_unchecked(stack, context, size, pushStatus, status, ptr) ==
    LET r == contexted_new(stack, context, pushStatus, "cuMemAllocHost_v2",
                           status, size * ElemSize, ptr)
    IN  IF r.result.kind # "Ok"
        THEN [result |-> Panic("Cannot allocate page-locked memory"),
              stack |-> r.stack, events |-> r.events, handle |-> NoHandle]
        ELSE [result |-> OkResult, stack |-> r.stack, events |-> r.events,
              handle |-> [kind |-> "PageLocked", ptr |-> r.value.v,
                          size |-> size, context |-> context,
                          data |-> [i \in 1..size |-> UninitElem]]]

\* Allocatable for PageLockedMemory: unsafe fn uninitialized(context, size)
uninitialized(stack, context, size, pushStatus, status, ptr) ==
    IF ~(size > 0)
    THEN [result |-> Panic("Zero-sized malloc is forbidden"),
          stack |-> stack, events |-> <<>>, handle |-> NoHandle]
    ELSE LET r == contexted_new(stack, context, pushStatus,
                                "cuMemAllocHost_v2", status, size * ElemSize,
                                ptr)
         IN  IF r.result.kind # "Ok"
             THEN [result |-> Panic("Cannot allocate page-locked memory"),
                   stack |-> r.stack, events |-> r.events,
                   handle |-> NoHandle]
             ELSE [result |-> OkResult, stack |-> r.stack,
                   events |-> r.events,
                   handle |-> [kind |-> "PageLocked", ptr |-> r.value.v,
                               size |-> size, context |-> context,
                               data |-> [i \in 1..size |-> UninitElem]]]

\* Allocatable::from_elem: uninitialized, then set(elem)
from_elem(stack, context, shape, elem, pushStatus, status, ptr) ==
    LET mem == uninitialized(stack, context, shape, pushStatus, status, ptr)
    IN  IF mem.handle = NoHandle THEN mem
        ELSE [mem EXCEPT !.handle.data = set(@, elem)]

\* Allocatable::zeros: uninitialized, then set_zero_u8
zeros(stack, context, shape, pushStatus, status, ptr) ==
    LET mem == uninitialized(stack, context, shape, pushStatus, status, ptr)
    IN  IF mem.handle = NoHandle THEN mem
        ELSE [mem EXCEPT !.handle.data = set_zero_u8(@)]

\* RegisteredMemory::new(context, data)
RegisteredMemory_new(stack, context, addr, data, pushStatus, status) ==
    LET r == contexted_call(stack, context, pushStatus, "cuMemHostRegister_v2",
                            status,
                            [addr |-> addr, bytes |-> Len(data) * ElemSize])
    IN  IF r.result.kind # "Ok"
        THEN [result |-> Panic("Failed to register host memory into CUDA memory system"),
              stack |-> r.stack, events |-> r.events, handle |-> NoHandle]
        ELSE [result |-> OkResult, stack |-> r.stack, events |-> r.events,
              handle |-> [kind |-> "Registered", ptr |-> addr,
                          size |-> Len(data), context |-> context,
                          data |-> data]]

\* The registration is released instead of the allocation.
PageLockedMemory_drop_unregisters(stack, h, pushStatus, status) ==
    LET r == contexted_call(stack, h.context, pushStatus,
                            "cuMemHostUnregister", status, h.ptr)
    IN  [result |-> OkResult, stack |-> r.stack, events |-> r.events,
         logged |-> IF r.result.kind # "Ok"
                    THEN <<"Cannot free page-locked memory", r.result>>
                    ELSE <<>>]

\* Drop for PageLockedMemory: a failed cuMemFreeHost is logged
PageLockedMemory_drop(stack, h, pushStatus, status) ==
    LET r == contexted_call(stack, h.context, pushStatus, "cuMemFreeHost",
                            status, h.ptr)
    IN  [result |-> OkResult, stack |-> r.stack, events |-> r.events,
         logged |-> IF r.result.kind # "Ok"
                    THEN <<"Cannot free page-locked memory", r.result>>
                    ELSE <<>>]

\* Drop for RegisteredMemory: a failed cuMemHostUnregister is logged
RegisteredMemory_drop(stack, h, pushStatus, status) ==
    LET r == contexted_call(stack, h.context, pushStatus,
                            "cuMemHostUnregister", status, h.ptr)
    IN  [result |-> OkResult, stack |-> r.stack, events |-> r.events,
         logged |-> IF r.result.kind # "Ok"
                    THEN <<"Failed to unregister memory", r.result>>
                    ELSE <<>>]

\* the caller's slices: every length from 0 to MaxLen
Slices == UNION {[1..n -> Values] : n \in 0..MaxLen}

Constructed(op, c, shape, elem, r) ==
    /\ ctxStack' = r.stack
    /\ lastOp' = [op |-> op, ctx |-> c, shape |-> shape, elem |-> elem,
                  stackBefore |-> ctxStack, events |-> r.events,
                  result |-> r.result, nBefore |-> Cardinality(handles),
                  handle |-> r.handle]
    /\ handles' = IF r.handle = NoHandle THEN handles
                  ELSE handles \cup {r.handle}
    /\ UNCHANGED <<launch, device, future, contexts>>

Uninitialized(c, size, pushStatus, status) ==
    /\ HostIdle
    /\ Cardinality(handles) < MaxHandles
    /\ status \in AllocCodes(size * ElemSize)
    /\ Constructed("uninitialized", c, size, UninitElem,
                   uninitialized(ctxStack, c, size, pushStatus, status,
                                 PinnedPtr(FreshPtr)))

FromElem(c, shape, elem, pushStatus, status) ==
    /\ HostIdle
    /\ Cardinality(handles) < MaxHandles
    /\ status \in AllocCodes(shape * ElemSize)
    /\ Constructed("from_elem", c, shape, elem,
                   from_elem(ctxStack, c, shape, elem, pushStatus, status,
                             PinnedPtr(FreshPtr)))

Zeros(c, shape, pushStatus, status) ==
    /\ HostIdle
    /\ Cardinality(handles) < MaxHandles
    /\ status \in AllocCodes(shape * ElemSize)
    /\ Constructed("zeros", c, shape, 0,
                   zeros(ctxStack, c, shape, pushStatus, status,
                         PinnedPtr(FreshPtr)))

RegisteredNew(c, data, pushStatus, status) ==
    /\ HostIdle
    /\ Cardinality(handles) < MaxHandles
    /\ Constructed("RegisteredMemory::new", c, Len(data), UninitElem,
                   RegisteredMemory_new(ctxStack, c, HeapPtr(FreshPtr), data,
                                        pushStatus, status))

\* The handle borrows its context: only the creator's references count.
Owners_callers_only(ctxs, hs, c) == ctxs[c].refs

\* the owners of a context: the references of its creator and the clone
\* every handle took at construction (context: context.clone())
Owners(ctxs, hs, c) ==
    ctxs[c].refs +
        Cardinality({h \in hs : h.kind \in {"PageLocked", "Registered"}
                                  /\ h.context = c})

\* a context is destroyed when its last owner is released
AfterRelease(ctxs, hs, c) ==
    IF Owners(ctxs, hs, c) = 0 THEN [ctxs EXCEPT ![c].alive = FALSE] ELSE ctxs

\* drop of a handle: Drop::drop runs, then the fields are dropped, the
\* context reference among them
Dropped(h, r) ==
    /\ ctxStack' = r.stack
    /\ lastOp' = [op |-> "drop", ctx |-> h.context, kind |-> h.kind,
                  ptr |-> h.ptr, stackBefore |-> ctxStack,
                  events |-> r.events, result |-> r.result,
                  logged |-> r.logged, nBefore |-> Cardinality(handles),
                  alive |-> contexts[h.context].alive]
    /\ handles' = handles \ {h}
    /\ contexts' = AfterRelease(contexts, handles \ {h}, h.context)
    /\ UNCHANGED <<launch, device, future>>

DropPageLocked(h, pushStatus, status) ==
    /\ HostIdle
    /\ h.kind = "PageLocked"
    /\ Dropped(h, PageLockedMemory_drop(ctxStack, h, pushStatus, status))

DropRegistered(h, pushStatus, status) ==
    /\ HostIdle
    /\ h.kind = "Registered"
    /\ Dropped(h, RegisteredMemory_drop(ctxStack, h, pushStatus, status))

Next ==
    \/ \E c \in Contexts : PushContext(c)
    \/ PopContext
    \/ \E c \in Contexts, size \in 0..MaxLen, pushStatus \in BindCodes,
          status \in QueryCodes :
         Uninitialized(c, size, pushStatus, status)
    \/ \E c \in Contexts, shape \in 0..MaxLen, elem \in Values,
          pushStatus \in BindCodes, status \in QueryCodes :
         FromElem(c, shape, elem, pushStatus, status)
    \/ \E c \in Contexts, shape \in 0..MaxLen, pushStatus \in BindCodes,
          status \in QueryCodes :
         Zeros(c, shape, pushStatus, status)
    \/ \E c \in Contexts, data \in Slices, pushStatus \in BindCodes,
          status \in QueryCodes :
         RegisteredNew(c, data, pushStatus, status)
    \/ \E h \in handles, pushStatus \in BindCodes, status \in QueryCodes :
         DropPageLocked(h, pushStatus, status)
    \/ \E h \in handles, pushStatus \in BindCodes, status \in QueryCodes :
         DropRegistered(h, pushStatus, status)

Spec == Init /\ [][Next]_vars

AllocatableOps == {"uninitialized", "zeros", "from_elem"}

\* C8: constructing Allocatable memory (uninitialized, zeros or from_elem)
\* with a zero-element shape panics before any driver call is issued: no
\* guard is taken, no allocation entry point is invoked, no handle is
\* created, so no release is ever issued for it.
C8_ZeroShapePanicsEarly ==
    /\ (lastOp.op \in AllocatableOps /\ lastOp.shape = 0) =>
         /\ lastOp.result = [kind |-> "Panic",
                             msg |-> "Zero-sized malloc is forbidden"]
         /\ lastOp.events = <<>>
         /\ ctxStack = lastOp.stackBefore
         /\ Cardinality(handles) = lastOp.nBefore
    /\ \A h \in handles : h.kind = "PageLocked" => h.size > 0
    /\ (lastOp.op = "drop" /\ lastOp.kind = "PageLocked") =>
         \A i \in 1..Len(lastOp.events) :
             lastOp.events[i].ev = "call" =>
                 lastOp.events[i].arg.space = "pinned"

\* C8 witness: zeros with a zero shape panicked while another handle is
\* alive.
C8_Witness ==
    /\ lastOp.op = "zeros"
    /\ lastOp.shape = 0
    /\ lastOp.result.kind = "Panic"
    /\ handles # {}

\* C9 as stated: zero-length construction is rejected for every handle
\* variant, the registered one included: no live handle has num_elem() = 0,
\* and a zero-length construction is rejected before the driver's
\* registration or allocation call is issued.
C9_ZeroLengthRejectedEarly ==
    /\ \A h \in handles : h.size > 0
    /\ (lastOp.op \in AllocatableOps \cup {"RegisteredMemory::new"}
            /\ lastOp.shape = 0) =>
         /\ lastOp.result.kind = "Panic"
         /\ lastOp.events = <<>>

ReleaseApi(kind) ==
    IF kind = "PageLocked" THEN "cuMemFreeHost" ELSE "cuMemHostUnregister"

AcquireApi(op) ==
    IF op = "RegisteredMemory::new" THEN "cuMemHostRegister_v2"
    ELSE "cuMemAllocHost_v2"

ReleaseApis == {"cuMemFreeHost", "cuMemHostUnregister"}

CallsOf(events) == {i \in 1..Len(events) : events[i].ev = "call"}

ConstructorOps == AllocatableOps \cup {"RegisteredMemory::new"}

-----------------------------------------------------------------------------
(* Memcpy::copy_from between host handles (memory/mod.rs)                   *)

\* the byte copy itself, host to host: every element of the source is stored
\* in the destination
Copied(dest, source) == [dest EXCEPT !.data = source.data]

\* The sizes are not compared: as many elements as both hold are copied.
copy_from_unchecked(dest, source) ==
    IF dest.ptr = source.ptr
    THEN [result |-> Panic("self and src are identical"),
          events |-> <<>>, dest |-> dest]
    ELSE [result |-> OkResult,
          events |-> <<[ev |-> "copy", from |-> source.ptr, to |-> dest.ptr]>>,
          dest |-> [dest EXCEPT !.data =
                      [i \in 1..Len(@) |->
                          IF i <= Len(source.data) THEN source.data[i]
                          ELSE @[i]]]]

\* Only the first element is copied.
copy_from_first_only(dest, source) ==
    IF dest.ptr = source.ptr
    THEN [result |-> Panic("self and src are identical"),
          events |-> <<>>, dest |-> dest]
    ELSE IF dest.size # source.size
    THEN [result |-> Panic("sizes of memory mismatch"),
          events |-> <<>>, dest |-> dest]
    ELSE [result |-> OkResult,
          events |-> <<[ev |-> "copy", from |-> source.ptr, to |-> dest.ptr]>>,
          dest |-> [dest EXCEPT !.data =
                      [i \in 1..Len(@) |->
                          IF i = 1 THEN source.data[i] ELSE @[i]]]]

\* The identity of the two handles is not compared.
copy_from_no_alias_check(dest, source) ==
    IF dest.size # source.size
    THEN [result |-> Panic("sizes of memory mismatch"),
          events |-> <<>>, dest |-> dest]
    ELSE [result |-> OkResult,
          events |-> <<[ev |-> "copy", from |-> source.ptr, to |-> dest.ptr]>>,
          dest |-> Copied(dest, source)]

\* fn copy_from(&mut self, source: &Target): returns (), panics if self and
\* src are identical and if the sizes of memory mismatch
copy_from(dest, source) ==
    IF dest.ptr = source.ptr
    THEN [result |-> Panic("self and src are identical"),
          events |-> <<>>, dest |-> dest]
    ELSE IF dest.size # source.size
    THEN [result |-> Panic("sizes of memory mismatch"),
          events |-> <<>>, dest |-> dest]
    ELSE [result |-> OkResult,
          events |-> <<[ev |-> "copy", from |-> source.ptr, to |-> dest.ptr]>>,
          dest |-> Copied(dest, source)]

CopyFrom(d, s) ==
    /\ HostIdle
    /\ LET r == copy_from(d, s)
       IN  /\ handles' = (handles \ {d}) \cup {r.dest}
           /\ lastOp' = [op |-> "copy_from", dest |-> d, source |-> s,
                         result |-> r.result, events |-> r.events,
                         destAfter |-> r.dest]
    /\ UNCHANGED <<ctxStack, launch, device, future, contexts>>

\* Memory::set on a live handle
Set(h, value) ==
    /\ HostIdle
    /\ handles' = (handles \ {h}) \cup {[h EXCEPT !.data = set(@, value)]}
    /\ lastOp' = [op |-> "set", before |-> h, value |-> value,
                  after |-> [h EXCEPT !.data = set(@, value)],
                  others |-> handles \ {h}, events |-> <<>>]
    /\ UNCHANGED <<ctxStack, launch, device, future, contexts>>

\* the context every handle of a copy is created on
CopyCtx == CHOOSE c \in Contexts : TRUE

NextCopy ==
    \/ \E shape \in 0..MaxLen, elem \in Values, status \in QueryCodes :
         FromElem(CopyCtx, shape, elem, CUDA_SUCCESS, status)
    \/ \E data \in Slices, status \in QueryCodes :
         RegisteredNew(CopyCtx, data, CUDA_SUCCESS, status)
    \/ \E h \in handles, value \in Values : Set(h, value)
    \/ \E d \in handles, s \in handles : CopyFrom(d, s)
    \/ \E h \in handles : DropPageLocked(h, CUDA_SUCCESS, CUDA_SUCCESS)
    \/ \E h \in handles : DropRegistered(h, CUDA_SUCCESS, CUDA_SUCCESS)

SpecCopy == Init /\ [][NextCopy]_vars

SizesDiffer == lastOp.op = "copy_from" /\ lastOp.dest.size # lastOp.source.size

\* C10 as stated: copy_from between two handles whose num_elem() differ
\* fails with the error SizeMismatch, issues no copy and leaves every
\* element of the destination unchanged.
C10_FailsWithSizeMismatch ==
    SizesDiffer =>
        /\ lastOp.result.kind = "SizeMismatch"
        /\ lastOp.events = <<>>
        /\ lastOp.destAfter.data = lastOp.dest.data

\* C10 amended: copy_from between two handles whose num_elem() differ
\* panics (it returns no error value), issues no copy and leaves every
\* element of the destination unchanged.
C10_PanicsOnSizeMismatch ==
    SizesDiffer =>
        /\ lastOp.result.kind = "Panic"
        /\ lastOp.events = <<>>
        /\ lastOp.destAfter.data = lastOp.dest.data
        /\ lastOp.destAfter \in handles

\* C10 witness: a copy into a two-element handle from a one-element handle
\* holding other values was refused.
C10_Witness ==
    /\ SizesDiffer
    /\ lastOp.dest.size = 2
    /\ lastOp.source.size = 1
    /\ lastOp.dest.data[1] # lastOp.source.data[1]
    /\ lastOp.result.kind = "Panic"

SameHandle == lastOp.op = "copy_from" /\ lastOp.dest.ptr = lastOp.source.ptr

\* C11 as stated: copy_from where source and destination are the same
\* handle fails with the error AliasedCopy and performs no copy: no copy is
\* issued and the contents are unchanged.
C11_FailsWithAliasedCopy ==
    SameHandle =>
        /\ lastOp.result.kind = "AliasedCopy"
        /\ lastOp.events = <<>>
        /\ lastOp.destAfter.data = lastOp.dest.data

\* C11 amended: copy_from where source and destination are the same handle
\* panics (it returns no error value), issues no copy and leaves the
\* contents of the handle unchanged.
C11_PanicsOnAliasedCopy ==
    SameHandle =>
        /\ lastOp.result.kind = "Panic"
        /\ lastOp.events = <<>>
        /\ lastOp.destAfter = lastOp.dest
        /\ lastOp.dest \in handles

\* C11 witness: a two-element handle holding two different values was
\* copied onto itself and refused.
C11_Witness ==
    /\ SameHandle
    /\ lastOp.dest.size = 2
    /\ lastOp.dest.data[1] # lastOp.dest.data[2]
    /\ lastOp.result.kind = "Panic"

-----------------------------------------------------------------------------
(* Copies that touch device memory: the device-resident kind of the memory  *)
(* layer and the driver copy entry points                                   *)

HostKinds == {"PageLocked", "Registered"}

\* Allocatable::from_elem for device-resident memory: a checked allocation
\* on the device followed by a fill
device_from_elem(stack, context, shape, elem, pushStatus, status, ptr) ==
    IF ~(shape > 0)
    THEN [result |-> Panic("Zero-sized malloc is forbidden"),
          stack |-> stack, events |-> <<>>, handle |-> NoHandle]
    ELSE LET r == contexted_new(stack, context, pushStatus,
                                "cuMemAllocManaged", status, shape * ElemSize,
                                ptr)
         IN  IF r.result.kind # "Ok"
             THEN [result |-> Panic("Cannot allocate device memory"),
                   stack |-> r.stack, events |-> r.events,
                   handle |-> NoHandle]
             ELSE [result |-> OkResult, stack |-> r.stack,
                   events |-> r.events,
                   handle |-> [kind |-> "Device", ptr |-> r.value.v,
                               size |-> shape, context |-> context,
                               data |-> [i \in 1..shape |-> elem]]]

\* the copy path of a (source kind, destination kind) pair
CopyPath(dest, source) ==
    CASE dest.kind \in HostKinds /\ source.kind \in HostKinds -> "host_to_host"
      [] dest.kind = "Device" /\ source.kind \in HostKinds -> "host_to_device"
      [] dest.kind \in HostKinds /\ source.kind = "Device" -> "device_to_host"
      [] OTHER -> "device_to_device"

\* what a driver copy that stopped after `written` elements leaves
PartlyCopied(dest, source, written) ==
    [dest EXCEPT !.data = [i \in 1..Len(@) |->
                              IF i <= written THEN source.data[i] ELSE @[i]]]

\* copy_from of a pairing that touches device memory: the same two checks,
\* then the driver copy entry point of the direction; copy_from returns (),
\* so a driver failure can only end in a panic
copy_from_driver(dest, source, status, written) ==
    IF dest.ptr = source.ptr
    THEN [result |-> Panic("self and src are identical"),
          events |-> <<>>, dest |-> dest]
    ELSE IF dest.size # source.size
    THEN [result |-> Panic("sizes of memory mismatch"),
          events |-> <<>>, dest |-> dest]
    ELSE LET ev == [ev |-> "copy", path |-> CopyPath(dest, source),
                    from |-> source.ptr, to |-> dest.ptr]
         IN  IF ffi_call("cuMemcpy", status).kind # "Ok"
             THEN [result |-> Panic("memcpy failed"), events |-> <<ev>>,
                   dest |-> PartlyCopied(dest, source, written)]
             ELSE [result |-> OkResult, events |-> <<ev>>,
                   dest |-> Copied(dest, source)]

DeviceFromElem(c, shape, elem, pushStatus, status) ==
    /\ HostIdle
    /\ Cardinality(handles) < MaxHandles
    /\ status \in AllocCodes(shape * ElemSize)
    /\ Constructed("from_elem", c, shape, elem,
                   device_from_elem(ctxStack, c, shape, elem, pushStatus,
                                    status, DevPtr(FreshPtr)))

\* Continuous::as_mut_slice()[i] = value on a host-reachable handle
WriteSlice(h, i, value) ==
    /\ HostIdle
    /\ h.kind \in HostKinds
    /\ i \in 1..h.size
    /\ handles' = (handles \ {h}) \cup {[h EXCEPT !.data[i] = value]}
    /\ lastOp' = [op |-> "as_mut_slice", before |-> h, i |-> i,
                  value |-> value, after |-> [h EXCEPT !.data[i] = value],
                  events |-> <<>>]
    /\ UNCHANGED <<ctxStack, launch, device, future, contexts>>

HostCopyFrom(d, s) ==
    /\ CopyPath(d, s) = "host_to_host"
    /\ CopyFrom(d, s)

DriverCopyFrom(d, s, status, written) ==
    /\ HostIdle
    /\ CopyPath(d, s) # "host_to_host"
    /\ written \in 0..(d.size - 1)
    /\ LET r == copy_from_driver(d, s, status, written)
       IN  /\ handles' = (handles \ {d}) \cup {r.dest}
           /\ lastOp' = [op |-> "copy_from", dest |-> d, source |-> s,
                         result |-> r.result, events |-> r.events,
                         destAfter |-> r.dest]
    /\ UNCHANGED <<ctxStack, launch, device, future, contexts>>

NextDeviceCopy ==
    \/ \E shape \in 1..MaxLen, elem \in Values :
         FromElem(CopyCtx, shape, elem, CUDA_SUCCESS, CUDA_SUCCESS)
    \/ \E shape \in 1..MaxLen, elem \in Values :
         DeviceFromElem(CopyCtx, shape, elem, CUDA_SUCCESS, CUDA_SUCCESS)
    \/ \E h \in handles, i \in 1..MaxLen, value \in Values :
         WriteSlice(h, i, value)
    \/ \E d \in handles, s \in handles : HostCopyFrom(d, s)
    \/ \E d \in handles, s \in handles, status \in QueryCodes,
          written \in 0..MaxLen :
         DriverCopyFrom(d, s, status, written)
    \/ \E h \in handles : DropPageLocked(h, CUDA_SUCCESS, CUDA_SUCCESS)

SpecDeviceCopy == Init /\ [][NextDeviceCopy]_vars

CopyDone ==
    /\ lastOp.op = "copy_from"
    /\ lastOp.dest.ptr # lastOp.source.ptr
    /\ lastOp.dest.size = lastOp.source.size
    /\ lastOp.result.kind = "Ok"

-----------------------------------------------------------------------------
(* Memory and Continuous for PageLockedMemory and RegisteredMemory: the     *)
(* accessors and the operations on the contents of a live handle            *)

\* Memory::head_addr / head_addr_mut: self.ptr, self.data.as_ptr()
head_addr(h) == h.ptr

\* Memory::num_elem: self.size, self.data.len()
num_elem(h) == IF h.kind = "Registered" THEN Len(h.data) ELSE h.size

\* DeviceSend::as_kernel_parameter: the parameter slot holds the head address
as_kernel_parameter(h) == [slot |-> head_addr(h)]

\* Memory::set_zero_u8 on a live handle
SetZeroU8(h) ==
    /\ HostIdle
    /\ h.kind \in HostKinds
    /\ handles' = (handles \ {h}) \cup {[h EXCEPT !.data = set_zero_u8(@)]}
    /\ lastOp' = [op |-> "set_zero_u8", before |-> h,
                  after |-> [h EXCEPT !.data = set_zero_u8(@)],
                  others |-> handles \ {h}, events |-> <<>>]
    /\ UNCHANGED <<ctxStack, launch, device, future, contexts>>

\* Continuous::as_slice()[i]: reading an element that was never written is
\* undefined, any value may be seen
ReadSlice(h, i, seen) ==
    /\ HostIdle
    /\ h.kind \in HostKinds
    /\ i \in 1..num_elem(h)
    /\ h.data[i] # UninitElem => seen = h.data[i]
    /\ lastOp' = [op |-> "as_slice", before |-> h, after |-> h, i |-> i,
                  value |-> seen, events |-> <<>>]
    /\ UNCHANGED <<ctxStack, handles, launch, device, future, contexts>>

\* as_kernel_parameter of a borrowed handle
AsKernelParameter(h) ==
    /\ HostIdle
    /\ h.kind \in HostKinds
    /\ lastOp' = [op |-> "as_kernel_parameter", before |-> h, after |-> h,
                  value |-> as_kernel_parameter(h), events |-> <<>>]
    /\ UNCHANGED <<ctxStack, handles, launch, device, future, contexts>>

\* Memory::memory_type: MemoryType::PageLocked for PageLockedMemory,
\* MemoryType::Host for RegisteredMemory
memory_type(h) == IF h.kind = "PageLocked" THEN "PageLocked" ELSE "Host"

\* memory_type of the slice view: unified addressing tells what the memory
\* under the slice is; page-locked and registered memory are both reported
\* as PageLocked
slice_memory_type(h) ==
    IF h.kind \in HostKinds THEN "PageLocked" ELSE "Device"

\* handle.memory_type() and handle.as_slice().memory_type()
MemoryTypeOf(h) ==
    /\ HostIdle
    /\ h.kind \in HostKinds
    /\ lastOp' = [op |-> "memory_type", before |-> h, after |-> h,
                  value |-> memory_type(h),
                  sliceValue |-> slice_memory_type(h), events |-> <<>>]
    /\ UNCHANGED <<ctxStack, handles, launch, device, future, contexts>>

NextMemory ==
    \/ \E size \in 0..MaxLen :
         Uninitialized(CopyCtx, size, CUDA_SUCCESS, CUDA_SUCCESS)
    \/ \E shape \in 0..MaxLen, elem \in Values :
         FromElem(CopyCtx, shape, elem, CUDA_SUCCESS, CUDA_SUCCESS)
    \/ \E data \in Slices :
         RegisteredNew(CopyCtx, data, CUDA_SUCCESS, CUDA_SUCCESS)
    \/ \E h \in handles, value \in Values : Set(h, value)
    \/ \E h \in handles : SetZeroU8(h)
    \/ \E h \in handles, i \in 1..MaxLen, value \in Values :
         WriteSlice(h, i, value)
    \/ \E h \in handles, i \in 1..MaxLen, seen \in Values :
         ReadSlice(h, i, seen)
    \/ \E h \in handles : AsKernelParameter(h)
    \/ \E h \in handles : MemoryTypeOf(h)
    \/ \E h \in handles : DropPageLocked(h, CUDA_SUCCESS, CUDA_SUCCESS)
    \/ \E h \in handles : DropRegistered(h, CUDA_SUCCESS, CUDA_SUCCESS)

SpecMemory == Init /\ [][NextMemory]_vars

ContentOps ==
    {"set", "set_zero_u8", "as_slice", "as_mut_slice", "as_kernel_parameter"}

\* C15: for every live handle, head_addr() and num_elem() return after any
\* of set, set_zero_u8, a slice read, a slice write and kernel-parameter
\* marshaling the values they returned at construction: the operations
\* change the contents only, never the address or the length, and no other
\* handle.
C15_AddressAndLengthStable ==
    /\ lastOp.op \in ContentOps =>
         /\ head_addr(lastOp.after) = head_addr(lastOp.before)
         /\ num_elem(lastOp.after) = num_elem(lastOp.before)
         /\ lastOp.after \in handles
         /\ \A h \in handles :
                head_addr(h) = head_addr(lastOp.before) => h = lastOp.after
    /\ (lastOp.op \in ConstructorOps /\ lastOp.result.kind = "Ok") =>
         num_elem(lastOp.handle) = lastOp.shape
    /\ \A h \in handles : num_elem(h) = h.size /\ Len(h.data) = h.size
    /\ lastOp.op = "as_kernel_parameter" =>
         lastOp.value.slot = head_addr(lastOp.before)

\* C15 witness: a slice write changed the contents of a two-element
\* registered buffer while another handle is alive.
C15_Witness ==
    /\ lastOp.op = "as_mut_slice"
    /\ lastOp.before.kind = "Registered"
    /\ num_elem(lastOp.before) = 2
    /\ lastOp.after.data # lastOp.before.data
    /\ Cardinality(handles) = 2

\* C18: on a page-locked or registered handle, after set(value) every one
\* of the num_elem() elements equals value, and after set_zero_u8 every
\* byte of the buffer, hence every element, is zero; neither operation
\* issues a driver call, changes the length or touches another handle.
C18_FillsEveryElement ==
    /\ lastOp.op = "set" =>
         \A i \in 1..num_elem(lastOp.before) :
             lastOp.after.data[i] = lastOp.value
    /\ lastOp.op = "set_zero_u8" =>
         /\ \A k \in 1..(num_elem(lastOp.before) * ElemSize) :
                as_u8(lastOp.after.data)[k] = 0
         /\ \A i \in 1..num_elem(lastOp.before) : lastOp.after.data[i] = 0
    /\ lastOp.op \in {"set", "set_zero_u8"} =>
         /\ lastOp.events = <<>>
         /\ ctxStack = <<>>
         /\ Len(lastOp.after.data) = num_elem(lastOp.before)
         /\ handles = lastOp.others \cup {lastOp.after}

\* C18 witness: set_zero_u8 cleared a two-element page-locked handle that
\* held a non-zero value while another handle is alive.
C18_Witness ==
    /\ lastOp.op = "set_zero_u8"
    /\ lastOp.before.kind = "PageLocked"
    /\ lastOp.before.data = <<1, 1>>
    /\ lastOp.others # {}

\* C17 as stated: memory_type() reports PageLocked for both
\* PageLockedMemory and RegisteredMemory, and the value a handle reports
\* equals the value reported by the slice view obtained with as_slice().
C17_ReportsPageLocked ==
    lastOp.op = "memory_type" =>
        /\ lastOp.value = "PageLocked"
        /\ lastOp.value = lastOp.sliceValue

-----------------------------------------------------------------------------
(* CudaMemory of memory.rs: len, byte_size and the element counts the       *)
(* constructors take.  A count is a usize.  It is written hi * Q + lo with  *)
(* Q = 2^64 / size_of::<T>() and lo below Q, so that multiplying it by      *)
(* size_of::<T>() has the mathematical value hi * 2^64 + lo * size_of::<T>() *)
(* and, in usize arithmetic, overflows exactly when hi is not 0.            *)

Count(hi, lo) == [hi |-> hi, lo |-> lo]
WideCounts == {Count(hi, lo) : hi \in 0..1, lo \in 0..MaxLen}

\* n * std::mem::size_of::<T>() in usize arithmetic: a build with overflow
\* checks panics on overflow, a build without them wraps
mul_size_of(n, overflowChecks) ==
    IF n.hi # 0 /\ overflowChecks
    THEN Panic("attempt to multiply with overflow")
    ELSE [kind |-> "Ok", value |-> [carry |-> 0, low |-> n.lo * ElemSize]]

\* CudaMemory::len
len(h) == h.size

\* CudaMemory::byte_size: self.len() * size_of::<T>()
byte_size(h, overflowChecks) == mul_size_of(len(h), overflowChecks)

\* memory.rs, PageLockedMemory::<T>::new(size):
\* cuMemAllocHost_v2(size * size_of::<T>()).expect(...)
OldPageLockedMemory_new(size, overflowChecks, status, ptr) ==
    LET bytes == mul_size_of(size, overflowChecks)
    IN  IF bytes.kind # "Ok"
        THEN [result |-> bytes, events |-> <<>>, handle |-> NoHandle]
        ELSE LET r == ffi_new("cuMemAllocHost_v2", status, ptr)
             IN  [result |-> IF r.result.kind = "Ok" THEN OkResult
                             ELSE Panic("Cannot allocate page-locked memory"),
                  events |-> <<[ev |-> "call", api |-> "cuMemAllocHost_v2",
                                arg |-> bytes.value]>>,
                  handle |-> IF r.result.kind = "Ok"
                             THEN [kind |-> "memory::PageLockedMemory",
                                   ptr |-> r.value.v, size |-> size]
                             ELSE NoHandle]

\* memory.rs, DeviceMemory::<T>::new(ctx, size) with the count as a usize
WideDeviceMemory_new(stack, ctx, size, checks, queryStatus, status, ptr) ==
    LET cur == is_current(stack, ctx, queryStatus)
        bytes == mul_size_of(size, checks)
    IN  IF cur.result.kind # "Ok" \/ ~cur.value
        THEN [result |-> Panic("DeviceMemory::new requires valid and current context"),
              events |-> <<>>, handle |-> NoHandle]
        ELSE IF bytes.kind # "Ok"
        THEN [result |-> bytes, events |-> <<>>, handle |-> NoHandle]
        ELSE LET r == ffi_new("cuMemAllocManaged", status, ptr)
             IN  [result |-> IF r.result.kind = "Ok" THEN OkResult
                             ELSE Panic("Cannot allocate device memory"),
                  events |-> <<[ev |-> "call", api |-> "cuMemAllocManaged",
                                arg |-> bytes.value]>>,
                  handle |-> IF r.result.kind = "Ok"
                             THEN [kind |-> "memory::DeviceMemory",
                                   ptr |-> r.value.v, size |-> size]
                             ELSE NoHandle]

SizedConstructed(op, size, r) ==
    /\ lastOp' = [op |-> op, count |-> size, events |-> r.events,
                  result |-> r.result, handle |-> r.handle]
    /\ handles' = IF r.handle = NoHandle THEN handles
                  ELSE handles \cup {r.handle}
    /\ UNCHANGED <<ctxStack, launch, device, future, contexts>>

OldPageLockedNew(size, overflowChecks, status) ==
    /\ HostIdle
    /\ Cardinality(handles) < MaxHandles
    /\ size.lo = 0 => status # CUDA_SUCCESS
    /\ SizedConstructed("memory::PageLockedMemory::new", size,
                        OldPageLockedMemory_new(size, overflowChecks, status,
                                                PinnedPtr(FreshPtr)))

WideDeviceMemoryNew(c, size, overflowChecks, queryStatus, status) ==
    /\ HostIdle
    /\ Cardinality(handles) < MaxHandles
    /\ size.lo = 0 => status # CUDA_SUCCESS
    /\ SizedConstructed("memory::DeviceMemory::new", size,
                        WideDeviceMemory_new(ctxStack, c, size, overflowChecks,
                                             queryStatus, status,
                                             DevPtr(FreshPtr)))

ByteSize(h, overflowChecks) ==
    /\ HostIdle
    /\ lastOp' = [op |-> "byte_size", handle |-> h, len |-> len(h),
                  result |-> byte_size(h, overflowChecks)]
    /\ UNCHANGED <<ctxStack, handles, launch, device, future, contexts>>

\* Drop of memory.rs: cuMemFree_v2(self.ptr).expect(...) for DeviceMemory,
\* cuMemFreeHost(self.ptr).expect(...) for PageLockedMemory
sized_drop(h, status) ==
    IF h.kind = "memory::DeviceMemory"
    THEN IF ffi_call("cuMemFree_v2", status).kind = "Ok" THEN OkResult
         ELSE Panic("Failed to free device memory")
    ELSE IF ffi_call("cuMemFreeHost", status).kind = "Ok" THEN OkResult
         ELSE Panic("Cannot free page-locked memory")

DropSized(h, status) ==
    /\ HostIdle
    /\ lastOp' = [op |-> "drop", handle |-> h,
                  result |-> sized_drop(h, status)]
    /\ handles' = handles \ {h}
    /\ UNCHANGED <<ctxStack, launch, device, future, contexts>>

NextSize ==
    \/ \E c \in Contexts : PushContext(c)
    \/ PopContext
    \/ \E size \in WideCounts, overflowChecks \in BOOLEAN,
          status \in QueryCodes :
         OldPageLockedNew(size, overflowChecks, status)
    \/ \E c \in Contexts, size \in WideCounts, overflowChecks \in BOOLEAN,
          queryStatus \in BindCodes, status \in QueryCodes :
         WideDeviceMemoryNew(c, size, overflowChecks, queryStatus, status)
    \/ \E h \in handles, overflowChecks \in BOOLEAN :
         ByteSize(h, overflowChecks)
    \/ \E h \in handles, status \in QueryCodes : DropSized(h, status)

SpecSize == Init /\ [][NextSize]_vars

SizedConstructors ==
    {"memory::PageLockedMemory::new", "memory::DeviceMemory::new"}

\* C16 as stated: for every handle, byte_size() equals len() multiplied by
\* the size of one element, and len() equals the element count passed to
\* the constructor.
C16_ByteSizeIsLenTimesElem ==
    /\ lastOp.op = "byte_size" =>
         /\ lastOp.result.kind = "Ok"
         /\ lastOp.result.value =
                [carry |-> lastOp.len.hi, low |-> lastOp.len.lo * ElemSize]
    /\ (lastOp.op \in SizedConstructors /\ lastOp.result.kind = "Ok") =>
         len(lastOp.handle) = lastOp.count

-----------------------------------------------------------------------------
(* Claims about Allocatable::zeros and Allocatable::from_elem, under Spec *)

Filled ==
    /\ lastOp.op \in {"zeros", "from_elem"}
    /\ lastOp.shape > 0
    /\ lastOp.result.kind = "Ok"

\* C19: for a non-zero shape n, a zeros(ctx, n) that returns gives a handle
\* with num_elem() = n whose elements are all zero, and a
\* from_elem(ctx, n, e) that returns gives a handle with num_elem() = n
\* whose elements all equal e; each issued exactly one allocation, and no
\* element of the returned handle is uninitialized.
C19_ConstructedFilled ==
    Filled =>
        /\ lastOp.handle \in handles
        /\ num_elem(lastOp.handle) = lastOp.shape
        /\ Len(lastOp.handle.data) = lastOp.shape
        /\ \A i \in 1..lastOp.shape :
               /\ lastOp.handle.data[i] = lastOp.elem
               /\ lastOp.handle.data[i] # UninitElem
        /\ Cardinality(CallsOf(lastOp.events)) = 1
        /\ \A i \in CallsOf(lastOp.events) :
               /\ lastOp.events[i].api = "cuMemAllocHost_v2"
               /\ lastOp.events[i].arg = lastOp.shape * ElemSize

\* C19 witness: zeros built a two-element handle on a context other than
\* the current one.
C19_Witness ==
    /\ Filled
    /\ lastOp.op = "zeros"
    /\ lastOp.shape = 2
    /\ Current(lastOp.stackBefore) \notin {NoCtx, lastOp.ctx}


-----------------------------------------------------------------------------
(* Memcpy::copy_from_async (memory/mod.rs): the future borrows both         *)
(* handles for 'a, the transfer runs on a stream of the device              *)

\* fn copy_from_async<'a>(&'a mut self, src: &'a Target) -> BoxFuture<'a, ()>
\* the future holds the destination's exclusive borrow while the caller
\* holds the future
MutBorrowed_never(f, h) == FALSE

MutBorrowed(f, h) == f.held /\ f.dest = h.ptr

\* ... and the source's shared borrow
SharedBorrowed(f, h) == f.held /\ f.source = h.ptr

\* what the borrow checker lets the caller do with a handle
CanRead(f, h) == ~MutBorrowed(f, h)
CanWrite(f, h) == ~MutBorrowed(f, h) /\ ~SharedBorrowed(f, h)

\* copy_from_async(source): the two checks of copy_from, then the transfer
\* is issued against a stream and the future is returned
copy_from_async(dest, source) ==
    IF dest.ptr = source.ptr
    THEN [result |-> Panic("self and src are identical"), future |-> NoFuture]
    ELSE IF dest.size # source.size
    THEN [result |-> Panic("sizes of memory mismatch"), future |-> NoFuture]
    ELSE [result |-> OkResult,
          future |-> [held |-> TRUE, resolved |-> FALSE, op |-> "running",
                      dest |-> dest.ptr, source |-> source.ptr,
                      written |-> 0, size |-> dest.size,
                      sourceRead |-> FALSE]]

\* one transfer is in flight at a time
CopyFromAsync(d, s) ==
    /\ HostIdle
    /\ ~future.held
    /\ future.op # "running"
    /\ CanWrite(future, d)
    /\ CanRead(future, s)
    /\ LET r == copy_from_async(d, s)
       IN  /\ future' = IF r.result.kind = "Ok" THEN r.future ELSE future
           /\ lastOp' = [op |-> "copy_from_async", dest |-> d, source |-> s,
                         result |-> r.result, events |-> <<>>]
    /\ UNCHANGED <<ctxStack, handles, launch, device, contexts>>

\* the stream moves the next element; the transfer goes on whether or not
\* the future is still held
StreamCopy ==
    /\ future.op = "running"
    /\ \E d \in handles, s \in handles :
         /\ d.ptr = future.dest
         /\ s.ptr = future.source
         /\ LET k == future.written + 1
            IN  /\ handles' = (handles \ {d}) \cup
                                {[d EXCEPT !.data[k] = s.data[k]]}
                /\ future' = [future EXCEPT
                                !.written = k,
                                !.op = IF k = future.size
                                       THEN "finished" ELSE "running"]
    /\ UNCHANGED <<ctxStack, lastOp, launch, device, contexts>>

\* future.await: resumes once the stream operation has finished; the
\* future is consumed and both borrows end
AwaitFuture ==
    /\ future.held
    /\ future.op = "finished"
    /\ future' = [future EXCEPT !.held = FALSE, !.resolved = TRUE]
    /\ lastOp' = [op |-> "await", future |-> future,
                  dest |-> CHOOSE d \in handles : d.ptr = future.dest,
                  source |-> CHOOSE h \in handles : h.ptr = future.source,
                  events |-> <<>>]
    /\ UNCHANGED <<ctxStack, handles, launch, device, contexts>>

\* drop(future): the future is given up without a join; both borrows end,
\* the transfer is not cancelled
DropFuture ==
    /\ future.held
    /\ future' = [future EXCEPT !.held = FALSE]
    /\ lastOp' = [op |-> "drop_future", future |-> future, events |-> <<>>]
    /\ UNCHANGED <<ctxStack, handles, launch, device, contexts>>

\* handle[i] by the caller, where the borrow checker accepts it; an element
\* the stream may be writing at the same time reads as either value
AsyncRead(h, i, seen) ==
    /\ HostIdle
    /\ CanRead(future, h)
    /\ i \in 1..num_elem(h)
    /\ \/ seen = h.data[i]
       \/ /\ future.op = "running"
          /\ future.dest = h.ptr
          /\ \E s \in handles : s.ptr = future.source /\ seen = s.data[i]
    /\ lastOp' = [op |-> "async_read", before |-> h, i |-> i, value |-> seen,
                  future |-> future, events |-> <<>>]
    /\ future' = IF SharedBorrowed(future, h)
                 THEN [future EXCEPT !.sourceRead = TRUE] ELSE future
    /\ UNCHANGED <<ctxStack, handles, launch, device, contexts>>

\* handle[i] = value by the caller, where the borrow checker accepts it
AsyncWrite(h, i, value) ==
    /\ HostIdle
    /\ CanWrite(future, h)
    /\ i \in 1..num_elem(h)
    /\ handles' = (handles \ {h}) \cup {[h EXCEPT !.data[i] = value]}
    /\ lastOp' = [op |-> "async_write", before |-> h, i |-> i,
                  value |-> value, future |-> future, events |-> <<>>]
    /\ UNCHANGED <<ctxStack, launch, device, future, contexts>>

NextAsync ==
    \/ \E shape \in 1..MaxLen, elem \in Values :
         FromElem(CopyCtx, shape, elem, CUDA_SUCCESS, CUDA_SUCCESS)
    \/ \E d \in handles, s \in handles : CopyFromAsync(d, s)
    \/ StreamCopy
    \/ AwaitFuture
    \/ DropFuture
    \* the caller looks at the first element: src[0], dest[0]
    \/ \E h \in handles, seen \in Values : AsyncRead(h, 1, seen)
    \/ \E h \in handles, value \in Values : AsyncWrite(h, 1, value)

SpecAsync == Init /\ [][NextAsync]_vars

\* an access by the caller to the destination of the asynchronous copy last
\* issued
DestAccess ==
    /\ lastOp.op \in {"async_read", "async_write"}
    /\ lastOp.future.op # "none"
    /\ lastOp.before.ptr = lastOp.future.dest

\* C21 as stated: from the moment copy_from_async returns its future until
\* that future resolves the caller cannot read or write the destination; the
\* destination becomes accessible again only after the future has completed.
C21_DestInaccessibleUntilResolved ==
    DestAccess => lastOp.future.resolved

\* C21: while the caller holds the future that copy_from_async returned,
\* the caller cannot read or write the destination and cannot write the
\* source, and can read the source; the future resolves only once the
\* stream operation has finished, and the destination then holds the
\* source's contents; the destination is accessible again as soon as the
\* future has been awaited to completion or dropped.
C21_DestInaccessibleWhileFutureHeld ==
    /\ DestAccess => ~lastOp.future.held
    /\ (lastOp.op = "async_write" /\ lastOp.future.op # "none"
          /\ lastOp.before.ptr = lastOp.future.source) => ~lastOp.future.held
    /\ lastOp.op = "await" =>
         /\ lastOp.future.op = "finished"
         /\ lastOp.dest.data = lastOp.source.data
    /\ future.resolved => future.op = "finished"

\* C21 witness: the destination is read after the future has resolved, and
\* the source was read while the future was held.
C21_Witness ==
    /\ DestAccess
    /\ lastOp.op = "async_read"
    /\ lastOp.future.resolved
    /\ lastOp.future.sourceRead


-----------------------------------------------------------------------------
(* define_launchable!(N) (accel-derive/src/launchable.rs): the traits       *)
(* Launchable0 .. LaunchableN and the launch each of them provides          *)

\* the where clause leaves the last argument type unbounded
generate_unbounded_last(n) ==
    [i \in 0..n |->
        [name |-> <<"Launchable", i>>,
         targets |-> [k \in 1..i |-> <<"Target", k>>],
         args_value |-> [k \in 1..i |-> <<"arg", k>>],
         args_types |-> [k \in 1..i |-> <<"Arg", k>>],
         bounds |-> [k \in 1..(IF i > 0 THEN i - 1 ELSE 0) |->
                        [ty |-> <<"Arg", k>>, target |-> <<"Target", k>>]]]]

\* generate: for each i in 0..=n the trait Launchable{i} with the associated
\* types Target1..Target{i}, the tuple pattern (arg1, .., arg{i}) of types
\* (Arg1, .., Arg{i}) and the bounds Arg{k}: DeviceSend<Target = Target{k}>
generate(n) ==
    [i \in 0..n |->
        [name |-> <<"Launchable", i>>,
         targets |-> [k \in 1..i |-> <<"Target", k>>],
         args_value |-> [k \in 1..i |-> <<"arg", k>>],
         args_types |-> [k \in 1..i |-> <<"Arg", k>>],
         bounds |-> [k \in 1..i |->
                        [ty |-> <<"Arg", k>>, target |-> <<"Target", k>>]]]]

\* the pointer types a kernel declares for a slot
TargetTypes == {"*const T", "*mut T"}

\* DeviceSend::Target of &PageLockedMemory<T> / &mut PageLockedMemory<T>,
\* and of &RegisteredMemory<T> / &mut RegisteredMemory<T>
DeviceSend_Target(arg) == IF arg.mutable THEN "*mut T" ELSE "*const T"

\* the position of a name in a list of generated identifiers
PositionOf(names, name) == CHOOSE p \in 1..Len(names) : names[p] = name

\* type checking a call of launch against the trait: the tuple has the
\* pattern's length, the kernel gives every associated type, and every
\* bound of the where clause holds for the type bound to its parameter
where_clause_holds(trait, declared, args) ==
    /\ Len(args) = Len(trait.args_types)
    /\ Len(declared) = Len(trait.targets)
    /\ \A b \in 1..Len(trait.bounds) :
         DeviceSend_Target(args[PositionOf(trait.args_types,
                                           trait.bounds[b].ty)])
           = declared[PositionOf(trait.targets, trait.bounds[b].target)]

\* the borrows of one argument tuple: a handle borrowed mutably is borrowed
\* once
BorrowsOk(args) ==
    \A p \in 1..Len(args), q \in 1..Len(args) :
        (p # q /\ args[p].handle.ptr = args[q].handle.ptr) =>
            (~args[p].mutable /\ ~args[q].mutable)

\* grid.into() / block.into(): a count, a pair or a triple becomes the three
\* axes, a missing axis being 1
into3(shorthand) ==
    [x |-> shorthand[1],
     y |-> IF Len(shorthand) >= 2 THEN shorthand[2] ELSE 1,
     z |-> IF Len(shorthand) >= 3 THEN shorthand[3] ELSE 1]

Shorthands == {<<2>>, <<2, 1>>, <<1, 2, 2>>}

\* The array is filled from the last argument to the first.
kernel_args_reversed(trait, args) ==
    [p \in 1..Len(trait.args_value) |->
        as_kernel_parameter(
            args[PositionOf(trait.args_value,
                            trait.args_value[Len(trait.args_value) + 1 - p])
                ].handle)]

\* let mut args = [arg1.as_kernel_parameter(), .., arg{i}.as_kernel_parameter()]
\* where (arg1, .., arg{i}) is the pattern the tuple was bound to
kernel_args(trait, args) ==
    [p \in 1..Len(trait.args_value) |->
        as_kernel_parameter(
            args[PositionOf(trait.args_value, trait.args_value[p])].handle)]

NullPtr == "null_mut"

\* the body of launch: into, get_kernel()?, the args array,
\* contexted_call!(&kernel, cuLaunchKernel, ...)?, kernel.sync()?, Ok(())
launch_body(stack, trait, kernel, grid, block, args, s) ==
    IF kernel.result.kind # "Ok"
    THEN [result |-> kernel.result, stack |-> stack, events |-> <<>>]
    ELSE LET g == into3(grid)
             b == into3(block)
             r == contexted_call(stack, kernel.context, s.push,
                                 "cuLaunchKernel", s.status,
                                 [func |-> kernel.func,
                                  grid |-> <<g.x, g.y, g.z>>,
                                  block |-> <<b.x, b.y, b.z>>,
                                  shared |-> 0, stream |-> NullPtr,
                                  args |-> kernel_args(trait, args),
                                  extra |-> NullPtr])
         IN  IF r.result.kind # "Ok"
             THEN [result |-> r.result, stack |-> r.stack,
                   events |-> r.events]
             ELSE LET y == contexted_call(r.stack, kernel.context, s.syncPush,
                                          "cuCtxSynchronize", s.syncStatus, 0)
                  IN  [result |-> y.result, stack |-> y.stack,
                       events |-> r.events \o y.events]

BuildRejected == [kind |-> "BuildRejected"]

\* type checking a call site of Launchable{i}::launch, i being the number of
\* targets the kernel declares
build(declared, args) ==
    IF where_clause_holds(generate(MaxArgs)[Len(declared)], declared, args)
    THEN OkResult
    ELSE BuildRejected

Declarations == UNION {[1..i -> TargetTypes] : i \in 0..MaxArgs}

ArgsOf(hs) ==
    UNION {[1..i -> [handle : hs, mutable : BOOLEAN]] : i \in 0..MaxArgs}

\* the build of a program with one call of launch
Build(declared, args) ==
    /\ HostIdle
    /\ BorrowsOk(args)
    /\ lastOp' = [op |-> "build", arity |-> Len(declared),
                  declared |-> declared, args |-> args,
                  result |-> build(declared, args), events |-> <<>>,
                  stack |-> ctxStack]
    /\ UNCHANGED <<ctxStack, handles, launch, device, future, contexts>>

Kernels == [result : KernelResults, context : {CopyCtx}, func : {"f"}]

LaunchStatuses ==
    [push : BindCodes, status : {CUDA_SUCCESS, CUDA_ERROR_INVALID_VALUE},
     syncPush : {CUDA_SUCCESS},
     syncStatus : {CUDA_SUCCESS, CUDA_ERROR_ASSERT}]

\* the call of launch of the program last built runs
LaunchTyped(kernel, grid, block, s) ==
    /\ HostIdle
    /\ lastOp.op = "build"
    /\ lastOp.result.kind = "Ok"
    /\ LET r == launch_body(ctxStack, generate(MaxArgs)[lastOp.arity],
                            kernel, grid, block, lastOp.args, s)
       IN  /\ ctxStack' = r.stack
           /\ lastOp' = [op |-> "launch", arity |-> lastOp.arity,
                         declared |-> lastOp.declared, kernel |-> kernel,
                         grid |-> grid, block |-> block,
                         args |-> lastOp.args, result |-> r.result,
                         events |-> r.events, stack |-> ctxStack,
                         statuses |-> s]
    /\ UNCHANGED <<handles, launch, device, future, contexts>>

NextGenerate ==
    \/ FromElem(CopyCtx, MaxLen, 0, CUDA_SUCCESS, CUDA_SUCCESS)
    \/ \E declared \in Declarations, args \in ArgsOf(handles) :
         Build(declared, args)
    \/ \E kernel \in Kernels, grid \in Shorthands, block \in Shorthands,
          s \in LaunchStatuses :
         LaunchTyped(kernel, grid, block, s)

SpecGenerate == Init /\ [][NextGenerate]_vars

\* the slots of a call of launch whose argument does not have the declared
\* target
Mismatched ==
    {k \in 1..Len(lastOp.args) :
        k <= lastOp.arity /\
        DeviceSend_Target(lastOp.args[k]) # lastOp.declared[k]}

LaunchCalls ==
    {k \in 1..Len(lastOp.events) :
        lastOp.events[k].ev = "call" /\
        lastOp.events[k].api = "cuLaunchKernel"}

\* C22: a launch whose argument list has, at any slot, an argument whose
\* DeviceSend::Target differs from the target the kernel declares for that
\* slot is rejected by the build: no guard is taken, no driver entry point
\* is invoked and the context stack is untouched; no launch that runs has
\* such an argument, so the mismatch is never a driver error at run time.
C22_MismatchRejectedAtBuild ==
    /\ (lastOp.op = "build" /\ Mismatched # {}) =>
         /\ lastOp.result = BuildRejected
         /\ lastOp.events = <<>>
         /\ ctxStack = lastOp.stack
    /\ lastOp.op = "launch" => Mismatched = {}

\* C22 witness: a call of launch of arity 2 whose first argument has the
\* declared target and whose second does not was rejected.
C22_Witness ==
    /\ lastOp.op = "build"
    /\ lastOp.arity = 2
    /\ Len(lastOp.args) = 2
    /\ Mismatched = {2}
    /\ lastOp.result = BuildRejected


\* the axis of a geometry as the caller gave it, 1 where none was given
Axis(shorthand, k) == IF k <= Len(shorthand) THEN shorthand[k] ELSE 1

-----------------------------------------------------------------------------
(* The context a host handle keeps: PageLockedMemory and RegisteredMemory   *)
(* clone the context they are created with and release under its guard      *)

\* drop(context) by the creator; a guard on the stack borrows the context
DropContext(c) ==
    /\ HostIdle
    /\ contexts[c].refs > 0
    /\ \A k \in 1..Len(ctxStack) : ctxStack[k] # c
    /\ contexts' = AfterRelease([contexts EXCEPT ![c].refs = @ - 1],
                                handles, c)
    /\ lastOp' = [op |-> "drop_context", ctx |-> c, events |-> <<>>]
    /\ UNCHANGED <<ctxStack, handles, launch, device, future>>

NextOwner ==
    \/ \E c \in Contexts : contexts[c].refs > 0 /\ PushContext(c)
    \/ PopContext
    \/ \E c \in Contexts :
         /\ contexts[c].refs > 0
         /\ FromElem(c, MaxLen, 0, CUDA_SUCCESS, CUDA_SUCCESS)
    \/ \E c \in Contexts :
         /\ contexts[c].refs > 0
         /\ RegisteredNew(c, [i \in 1..MaxLen |-> 0], CUDA_SUCCESS,
                          CUDA_SUCCESS)
    \/ \E c \in Contexts : DropContext(c)
    \/ \E h \in handles, pushStatus \in BindCodes,
          status \in {CUDA_SUCCESS, CUDA_ERROR_INVALID_VALUE} :
         DropPageLocked(h, pushStatus, status)
    \/ \E h \in handles, pushStatus \in BindCodes,
          status \in {CUDA_SUCCESS, CUDA_ERROR_INVALID_VALUE} :
         DropRegistered(h, pushStatus, status)

SpecOwner == Init /\ [][NextOwner]_vars

HostDrop == lastOp.op = "drop" /\ lastOp.kind \in HostKinds

====
